---------------------------- MODULE Spec2Model ----------------------------
(***************************************************************************)
(* Model of robot_framework/process.py: the robot that journalises the     *)
(* receipt emails of the "enlig forsoerger" project.  One run of process   *)
(* lists the source folder, filters it, and handles the selected emails    *)
(* one after the other: extract the cpr, create a queue element, create a  *)
(* case, attach the email to the case, move the email, set the queue       *)
(* element to DONE.  Every call of the try block may raise.                *)
(*                                                                         *)
(* Texts are sequences of one-character strings, so that the pattern       *)
(* search of get_cpr_from_email is computed character by character.        *)
(* The calls of the orchestrator (create_queue_element,                    *)
(* set_queue_element_status), the authentication and the listing of the    *)
(* folder are taken to return; uuid4 is taken to return a fresh value.     *)
(***************************************************************************)
EXTENDS Naturals, Sequences, FiniteSets, TLC

VARIABLES
    folder,         \* the emails of "Kvitteringer til journalisering", in gateway order
    archive,        \* the emails of "Journaliserede kvitteringer"
    queue,          \* the queue elements of the orchestrator
    cases,          \* the cases persisted in Nova (add_case)
    uploads,        \* number of documents uploaded (upload_document)
    documents,      \* the documents attached to cases (attach_document_to_case)
    log,            \* the calls made so far, in order
    selections,     \* selections[r]: the list get_emails returned in run r
    run,            \* number of runs of process started
    handling,       \* number of calls of handle_email started
    emails,         \* process: the local list emails
    idx,            \* process: position of the for loop in emails
    pc,             \* position in process / handle_email
    cpr,            \* handle_email: local cpr
    case,           \* handle_email: uuid of the local case
    doc_uuid,       \* attach_email_to_case: local doc_uuid
    queue_element,  \* handle_email: id of the local queue_element
    exc             \* the exception that ended the run, or NoException

vars == <<folder, archive, queue, cases, uploads, documents, log, selections,
          run, handling, emails, idx, pc, cpr, case, doc_uuid, queue_element, exc>>

(***************************************************************************)
(* Bounds of the model.                                                    *)
(***************************************************************************)
NumEmails == 3      \* emails in the source folder (Spec, SpecSelect)
BatchRuns == 1      \* runs of process over that folder (Spec)
RerunEmails == 2    \* emails in the source folder when runs follow each other (SpecRuns)
MaxRuns == 2        \* runs of process following each other (SpecRuns, SpecCpr)
MaxSegs == 4        \* segments of a body text (SpecCpr)

None == "None"

\* no exception is propagating
NoException == [type |-> None, message |-> None, at |-> None]

(***************************************************************************)
(* Texts.                                                                  *)
(***************************************************************************)
CprMarker == <<"C", "P", "R", "-", "n", "u", "m", "m", "e", "r">>
AdrMarker == <<"A", "d", "r", "e", "s", "s", "e">>
Digits == <<"1", "2", "3", "4", "5", "6", "7", "8", "9", "0">>
Newline == "\n"

\* text[i..] starts with the literal lit
StartsAt(text, i, lit) ==
    /\ i + Len(lit) <= Len(text) + 1
    /\ SubSeq(text, i, i + Len(lit) - 1) = lit

RECURSIVE Concat(_)
Concat(segs) == IF segs = <<>> THEN <<>> ELSE Head(segs) \o Concat(Tail(segs))

(***************************************************************************)
(* re.findall(r"CPR-nummer(.+?)Adresse", text): the leftmost match first,  *)
(* the lazy group takes at least one character, "." matches no line        *)
(* break, and the search goes on behind each match.                        *)
(***************************************************************************)
\* (.+?)Adresse from position j on, one character of the group already taken:
\* the position where "Adresse" starts, or 0 when the attempt fails
RECURSIVE LazyGroupEnd(_, _)
LazyGroupEnd(text, j) ==
    IF StartsAt(text, j, AdrMarker) THEN j
    ELSE IF j > Len(text) \/ text[j] = Newline THEN 0
    ELSE LazyGroupEnd(text, j + 1)

\* the pattern written with (.*?): the group may be empty
MatchAtEmptyGroup(text, i) ==
    IF ~StartsAt(text, i, CprMarker) THEN 0
    ELSE LazyGroupEnd(text, i + Len(CprMarker))

\* the pattern tried at position i: the position where "Adresse" starts, or 0
MatchAt(text, i) ==
    IF ~StartsAt(text, i, CprMarker) THEN 0
    ELSE LET s == i + Len(CprMarker)
         IN  IF s > Len(text) \/ text[s] = Newline THEN 0
             ELSE LazyGroupEnd(text, s + 1)

RECURSIVE findall_from(_, _)
findall_from(text, i) ==
    IF i > Len(text) THEN <<>>
    ELSE LET j == MatchAt(text, i)
         IN  IF j = 0 THEN findall_from(text, i + 1)
             ELSE <<SubSeq(text, i + Len(CprMarker), j - 1)>>
                  \o findall_from(text, j + Len(AdrMarker))

findall(text) == findall_from(text, 1)

\* extraction that returns an empty cpr where nothing matches
get_cpr_or_default(email) ==
    LET found == findall(email.body)
    IN  IF found = <<>> THEN [ok |-> TRUE, cpr |-> <<>>]
        ELSE [ok |-> TRUE, cpr |-> found[1]]

\* get_cpr_from_email: findall(...)[0]; an empty list raises IndexError
get_cpr_from_email(email) ==
    LET found == findall(email.body)
    IN  IF found = <<>> THEN [ok |-> FALSE, cpr |-> None]
        ELSE [ok |-> TRUE, cpr |-> found[1]]

(***************************************************************************)
(* get_emails: the list comprehension over the emails of the folder.       *)
(***************************************************************************)
Sender == "noreply@aarhus.dk"
Subject == "Erklæring - økonomisk fripladstilskud"

\* the filter written with "or"
SelectedEither(mail) == mail.sender = Sender \/ mail.subject = Subject

Selected(mail) == mail.sender = Sender /\ mail.subject = Subject

RECURSIVE get_emails(_)
get_emails(mails) ==
    IF mails = <<>> THEN <<>>
    ELSE (IF Selected(Head(mails)) THEN <<Head(mails)>> ELSE <<>>)
         \o get_emails(Tail(mails))

\* datetime.fromisoformat(email.received_time) returns (else ValueError)
ValidTime == "2024-05-01T10:00:00"
fromisoformat_ok(t) == t = ValidTime


(***************************************************************************)
(* The emails the folder may hold at the start.                            *)
(***************************************************************************)
GoodBody == <<"N", "a", "v", "n", " ">> \o CprMarker \o Digits \o AdrMarker \o <<" ", "X">>
NoMatchBody == <<"N", "a", "v", "n", " ">> \o Digits

Email(i, sender, subject, body, received_time) ==
    [id |-> i, sender |-> sender, subject |-> subject, body |-> body,
     received_time |-> received_time]

\* a receipt; one of another sender; a receipt without the markers; one whose
\* received_time does not parse
Profiles(i) ==
    { Email(i, Sender, Subject, GoodBody, ValidTime),
      Email(i, "borger@example.dk", Subject, GoodBody, ValidTime),
      Email(i, Sender, Subject, NoMatchBody, ValidTime),
      Email(i, Sender, Subject, GoodBody, "not a date") }

Folders(n) == { f \in [1..n -> UNION {Profiles(i) : i \in 1..n}] :
                  \A i \in 1..n : f[i] \in Profiles(i) }

\* QueueStatus
STATUS_NEW == "NEW"
DONE == "DONE"
FAILED == "FAILED"

\* str(exc) of the exceptions the backend calls raise
ExcMessages == {"", "HTTP 500"}

\* the calls of the try block, in the order of the code
TrySteps == <<"get_address_by_cpr", "add_case", "get_email_as_mime",
              "upload_document", "attach_document_to_case", "move_email">>
TryPcs == {TrySteps[i] : i \in 1..Len(TrySteps)}

email == emails[idx]

\* a call made while handling the current email: its name, whether it returned,
\* and the text of the exception when it raised
Called(op, ok, message) ==
    [op |-> op, run |-> run, handling |-> handling, email |-> email.id, ok |-> ok,
     message |-> message]

\* before the first run: nothing archived, queued or journalised
NothingDoneYet ==
    /\ archive = <<>>
    /\ queue = <<>>
    /\ cases = <<>>
    /\ uploads = 0
    /\ documents = <<>>
    /\ log = <<>>
    /\ selections = <<>>
    /\ run = 0
    /\ handling = 0
    /\ emails = <<>>
    /\ idx = 0
    /\ pc = "idle"
    /\ cpr = None
    /\ case = None
    /\ doc_uuid = None
    /\ queue_element = None
    /\ exc = NoException

Init ==
    /\ folder \in Folders(NumEmails)
    /\ NothingDoneYet

(***************************************************************************)
(* process, lines 25-39: a run starts and selects its emails.              *)
(***************************************************************************)
StartRunWithin(limit) ==
    /\ pc \in {"idle", "finished", "crashed"}
    /\ run < limit
    /\ run' = run + 1
    /\ emails' = get_emails(folder)
    /\ selections' = Append(selections, emails')
    /\ idx' = 1
    /\ pc' = "loop"
    /\ exc' = NoException
    /\ cpr' = None
    /\ case' = None
    /\ doc_uuid' = None
    /\ queue_element' = None
    /\ UNCHANGED <<folder, archive, queue, cases, uploads, documents, log, handling>>

StartRun == StartRunWithin(BatchRuns)

StartNextRun == StartRunWithin(MaxRuns)

\* process, line 41: the list is exhausted and process returns
LoopEnd ==
    /\ pc = "loop"
    /\ idx > Len(emails)
    /\ pc' = "finished"
    /\ UNCHANGED <<folder, archive, queue, cases, uploads, documents, log, selections,
                   run, handling, emails, idx, cpr, case, doc_uuid, queue_element, exc>>

\* orchestrator_connection.create_queue_element(QUEUE_NAME, reference=...)
create_queue_element(c, e) ==
    Append(queue, [id |-> Len(queue) + 1, reference |-> <<c, e.received_time>>,
                   status |-> STATUS_NEW, message |-> None, sets |-> 0,
                   email |-> e.id, handling |-> handling + 1, run |-> run])

\* orchestrator_connection.set_queue_element_status(id, status, message)
set_queue_element_status(id, status, message) ==
    [queue EXCEPT ![id].status = status, ![id].message = message,
                  ![id].sets = @ + 1]

(***************************************************************************)
(* process line 42 and handle_email lines 47-50: the next email is handed  *)
(* to handle_email; the cpr is extracted and the received time parsed,     *)
(* both outside the try block, then the queue element is created.          *)
(***************************************************************************)
HandleEmailStart ==
    /\ pc = "loop"
    /\ idx <= Len(emails)
    /\ handling' = handling + 1
    /\ LET r == get_cpr_from_email(email)
           started == [op |-> "handle_email", run |-> run, handling |-> handling + 1,
                       email |-> email.id, ok |-> TRUE, message |-> None]
       IN  IF ~r.ok
           THEN /\ exc' = [type |-> "IndexError", message |-> "list index out of range",
                           at |-> "get_cpr_from_email"]
                /\ pc' = "crashed"
                /\ log' = Append(log, started)
                /\ UNCHANGED <<queue, cpr, queue_element>>
           ELSE IF ~fromisoformat_ok(email.received_time)
           THEN /\ exc' = [type |-> "ValueError", message |-> "Invalid isoformat string",
                           at |-> "fromisoformat"]
                /\ pc' = "crashed"
                /\ cpr' = r.cpr
                /\ log' = Append(log, started)
                /\ UNCHANGED <<queue, queue_element>>
           ELSE /\ cpr' = r.cpr
                /\ queue' = create_queue_element(r.cpr, email)
                /\ queue_element' = Len(queue) + 1
                /\ log' = Append(Append(log, started),
                                 [op |-> "create_queue_element", run |-> run,
                                  handling |-> handling + 1, email |-> email.id,
                                  ok |-> TRUE, message |-> None])
                /\ pc' = "get_address_by_cpr"
                /\ UNCHANGED exc
    /\ UNCHANGED <<folder, archive, cases, uploads, documents, selections, run,
                   emails, idx, case, doc_uuid>>

(***************************************************************************)
(* handle_email lines 57-59: a call of the try block raises; the handler   *)
(* sets the queue element to FAILED with str(exc) and raises again, which  *)
(* ends process (line 42 catches nothing).                                 *)
(***************************************************************************)
\* a handler that records the failure without the text of the exception
ExceptHandlerNoMessage(message) ==
    /\ queue' = set_queue_element_status(queue_element, FAILED, None)
    /\ exc' = [type |-> "Exception", message |-> message, at |-> pc]
    /\ log' = Append(Append(log, Called(pc, FALSE, message)),
                     Called("set_queue_element_status", TRUE, None))
    /\ pc' = "crashed"
    /\ UNCHANGED <<folder, archive, cases, uploads, documents, selections, run,
                   handling, emails, idx, cpr, case, doc_uuid, queue_element>>

\* a handler that raises again without touching the queue element
ExceptHandlerNoStatus(message) ==
    /\ exc' = [type |-> "Exception", message |-> message, at |-> pc]
    /\ log' = Append(log, Called(pc, FALSE, message))
    /\ pc' = "crashed"
    /\ UNCHANGED <<folder, archive, queue, cases, uploads, documents, selections, run,
                   handling, emails, idx, cpr, case, doc_uuid, queue_element>>

\* a handler that records the failure and lets the loop go on (no raise)
ExceptHandlerSwallow(message) ==
    /\ queue' = set_queue_element_status(queue_element, FAILED, message)
    /\ log' = Append(Append(log, Called(pc, FALSE, message)),
                     Called("set_queue_element_status", TRUE, None))
    /\ idx' = idx + 1
    /\ pc' = "loop"
    /\ UNCHANGED <<folder, archive, cases, uploads, documents, selections, run,
                   handling, emails, cpr, case, doc_uuid, queue_element, exc>>

\* a try block around the single call: the failure is passed over and the
\* next call of the sequence is made
ExceptHandlerContinue(message) ==
    /\ log' = Append(log, Called(pc, FALSE, message))
    /\ pc' = IF pc = "move_email" THEN "set_done"
             ELSE TrySteps[(CHOOSE i \in 1..Len(TrySteps) : TrySteps[i] = pc) + 1]
    /\ UNCHANGED <<folder, archive, queue, cases, uploads, documents, selections, run,
                   handling, emails, idx, cpr, case, doc_uuid, queue_element, exc>>

ExceptHandler(message) ==
    /\ queue' = set_queue_element_status(queue_element, FAILED, message)
    /\ exc' = [type |-> "Exception", message |-> message, at |-> pc]
    /\ log' = Append(Append(log, Called(pc, FALSE, message)),
                     Called("set_queue_element_status", TRUE, None))
    /\ pc' = "crashed"
    /\ UNCHANGED <<folder, archive, cases, uploads, documents, selections, run,
                   handling, emails, idx, cpr, case, doc_uuid, queue_element>>

BackendRaises ==
    /\ pc \in TryPcs
    /\ \E message \in ExcMessages : ExceptHandler(message)

(***************************************************************************)
(* create_case, lines 96-147.                                              *)
(***************************************************************************)
\* line 108: the name of the person is looked up
GetAddressByCpr ==
    /\ pc = "get_address_by_cpr"
    /\ log' = Append(log, Called(pc, TRUE, None))
    /\ pc' = "add_case"
    /\ UNCHANGED <<folder, archive, queue, cases, uploads, documents, selections, run,
                   handling, emails, idx, cpr, case, doc_uuid, queue_element, exc>>

\* lines 133-147: a new case with a fresh uuid is built and persisted; no
\* existing case is looked up
NewCase == [uuid |-> Len(cases) + 1, cpr |-> cpr, case_date |-> email.received_time,
            email |-> email.id, handling |-> handling, run |-> run]

\* create_case as its docstring describes it: a case of the same cpr is reused
AddCaseIfNoneExists ==
    /\ pc = "add_case"
    /\ IF \E c \in 1..Len(cases) : cases[c].cpr = cpr
       THEN /\ case' = cases[CHOOSE c \in 1..Len(cases) : cases[c].cpr = cpr].uuid
            /\ UNCHANGED cases
       ELSE /\ cases' = Append(cases, NewCase)
            /\ case' = NewCase.uuid
    /\ log' = Append(log, Called(pc, TRUE, None))
    /\ pc' = "get_email_as_mime"
    /\ UNCHANGED <<folder, archive, queue, uploads, documents, selections, run,
                   handling, emails, idx, cpr, doc_uuid, queue_element, exc>>

AddCase ==
    /\ pc = "add_case"
    /\ cases' = Append(cases, NewCase)
    /\ case' = NewCase.uuid
    /\ log' = Append(log, Called(pc, TRUE, None))
    /\ pc' = "get_email_as_mime"
    /\ UNCHANGED <<folder, archive, queue, uploads, documents, selections, run,
                   handling, emails, idx, cpr, doc_uuid, queue_element, exc>>

(***************************************************************************)
(* attach_email_to_case, lines 150-172.                                    *)
(***************************************************************************)
GetEmailAsMime ==
    /\ pc = "get_email_as_mime"
    /\ log' = Append(log, Called(pc, TRUE, None))
    /\ pc' = "upload_document"
    /\ UNCHANGED <<folder, archive, queue, cases, uploads, documents, selections, run,
                   handling, emails, idx, cpr, case, doc_uuid, queue_element, exc>>

UploadDocument ==
    /\ pc = "upload_document"
    /\ uploads' = uploads + 1
    /\ doc_uuid' = uploads + 1
    /\ log' = Append(log, Called(pc, TRUE, None))
    /\ pc' = "attach_document_to_case"
    /\ UNCHANGED <<folder, archive, queue, cases, documents, selections, run,
                   handling, emails, idx, cpr, case, queue_element, exc>>

\* the document attached to the first case of the backend
AttachTargetFirstCase == cases[1].uuid

\* line 172: attach_document_to_case(case.uuid, doc, nova_access)
AttachTarget == case

AttachDocumentToCase ==
    /\ pc = "attach_document_to_case"
    /\ documents' = Append(documents,
                           [uuid |-> doc_uuid, case |-> AttachTarget,
                            document_date |-> email.received_time,
                            email |-> email.id, handling |-> handling, run |-> run])
    /\ log' = Append(log, Called(pc, TRUE, None))
    /\ pc' = "move_email"
    /\ UNCHANGED <<folder, archive, queue, cases, uploads, selections, run,
                   handling, emails, idx, cpr, case, doc_uuid, queue_element, exc>>

(***************************************************************************)
(* handle_email line 56: the email is moved to the archive folder.         *)
(***************************************************************************)
Without(mails, id) == SelectSeq(mails, LAMBDA m : m.id # id)

\* the email copied to the archive folder and left in the source folder
MoveEmailCopies ==
    /\ pc = "move_email"
    /\ archive' = Append(archive, email)
    /\ log' = Append(log, Called(pc, TRUE, None))
    /\ pc' = "set_done"
    /\ UNCHANGED <<folder, queue, cases, uploads, documents, selections, run,
                   handling, emails, idx, cpr, case, doc_uuid, queue_element, exc>>

MoveEmail ==
    /\ pc = "move_email"
    /\ folder' = Without(folder, email.id)
    /\ archive' = Append(archive, email)
    /\ log' = Append(log, Called(pc, TRUE, None))
    /\ pc' = "set_done"
    /\ UNCHANGED <<queue, cases, uploads, documents, selections, run,
                   handling, emails, idx, cpr, case, doc_uuid, queue_element, exc>>

\* handle_email line 61, and the loop of process goes on to the next email
SetDone ==
    /\ pc = "set_done"
    /\ queue' = set_queue_element_status(queue_element, DONE, None)
    /\ log' = Append(Append(log, Called("set_queue_element_status", TRUE, None)),
                     Called("return", TRUE, None))
    /\ idx' = idx + 1
    /\ pc' = "loop"
    /\ UNCHANGED <<folder, archive, cases, uploads, documents, selections, run,
                   handling, emails, cpr, case, doc_uuid, queue_element, exc>>

Next ==
    \/ StartRun
    \/ LoopEnd
    \/ HandleEmailStart
    \/ BackendRaises
    \/ GetAddressByCpr
    \/ AddCase
    \/ GetEmailAsMime
    \/ UploadDocument
    \/ AttachDocumentToCase
    \/ MoveEmail
    \/ SetDone

Spec == Init /\ [][Next]_vars

(***************************************************************************)
(* Runs following each other over the same folder.                         *)
(***************************************************************************)
InitRuns ==
    /\ folder \in Folders(RerunEmails)
    /\ NothingDoneYet

NextRuns ==
    \/ StartNextRun
    \/ LoopEnd
    \/ HandleEmailStart
    \/ BackendRaises
    \/ GetAddressByCpr
    \/ AddCase
    \/ GetEmailAsMime
    \/ UploadDocument
    \/ AttachDocumentToCase
    \/ MoveEmail
    \/ SetDone

SpecRuns == InitRuns /\ [][NextRuns]_vars

(***************************************************************************)
(* Selection alone: the folder holds any list of emails whose sender and   *)
(* subject match, nearly match or do not match, and a run selects.         *)
(***************************************************************************)
Senders == {Sender, "Noreply@aarhus.dk", "kontrolteamet@mkb.aarhus.dk"}
Subjects == {Subject, "Erklæring - økonomisk fripladstilskud ", "Erklæring"}

MailsOfLen(n) ==
    { f \in [1..n -> {Email(i, s, t, GoodBody, ValidTime) :
                        i \in 1..n, s \in Senders, t \in Subjects}] :
        \A i \in 1..n : f[i].id = i }

InitSelect ==
    /\ folder \in UNION {MailsOfLen(n) : n \in 0..NumEmails}
    /\ NothingDoneYet

NextSelect == StartRun

SpecSelect == InitSelect /\ [][NextSelect]_vars

(***************************************************************************)
(* Extraction alone: the folder holds one receipt whose body is any text   *)
(* made of up to MaxSegs segments; a run selects it and handle_email       *)
(* extracts the cpr.  A raising backend call lets a second run extract     *)
(* from the same text again.                                               *)
(***************************************************************************)
Segments == {CprMarker, AdrMarker, Digits, <<Newline>>, <<" ">>, <<"A">>}

Bodies == {Concat(segs) : segs \in UNION {[1..n -> Segments] : n \in 0..MaxSegs}}

InitCpr ==
    /\ \E body \in Bodies : folder = <<Email(1, Sender, Subject, body, ValidTime)>>
    /\ NothingDoneYet

NextCpr ==
    \/ StartNextRun
    \/ HandleEmailStart
    \/ BackendRaises

SpecCpr == InitCpr /\ [][NextCpr]_vars

(***************************************************************************)
(* C6 (SpecSelect).  get_emails returns exactly the emails of the folder   *)
(* whose sender is "noreply@aarhus.dk" and whose subject is "Erklæring -   *)
(* økonomisk fripladstilskud", both exactly, in the order of the folder,   *)
(* none twice and none dropped: the k-th selected email is the k-th        *)
(* matching email of the folder.                                           *)
(***************************************************************************)
Matching ==
    { i \in 1..Len(folder) :
        /\ folder[i].sender = "noreply@aarhus.dk"
        /\ folder[i].subject = "Erklæring - økonomisk fripladstilskud" }

C6_SelectionExact ==
    pc = "loop" =>
        /\ Len(emails) = Cardinality(Matching)
        /\ \A i \in Matching :
              emails[Cardinality({j \in Matching : j <= i})] = folder[i]

\* a folder with an email matching only in its sender, one matching only in its
\* subject and, behind them, two that match: those two are selected, in order
C6_Witness ==
    /\ pc = "loop"
    /\ Len(folder) = NumEmails
    /\ \E i, j \in 1..Len(folder) :
          /\ folder[i].sender = Sender /\ folder[i].subject # Subject
          /\ folder[j].sender # Sender /\ folder[j].subject = Subject
    /\ Len(emails) >= 1
    /\ emails[1] # folder[1]

(***************************************************************************)
(* C9 (SpecCpr), as amended.  get_cpr_from_email returns the first capture *)
(* of the leftmost match of the pattern: among the occurrences of          *)
(* "CPR-nummer" that are followed, after at least one character and with   *)
(* no line break in between, by "Adresse", the first one; the result is    *)
(* the text between that marker and the nearest "Adresse" that starts at   *)
(* least one character behind it, untrimmed.  No such occurrence: the      *)
(* IndexError.  The same text gives the same result in every run.          *)
(***************************************************************************)
Occurrences(text, lit) == {i \in 1..Len(text) : StartsAt(text, i, lit)}

CprPairs(text) ==
    { ij \in Occurrences(text, CprMarker) \X Occurrences(text, AdrMarker) :
        /\ ij[2] > ij[1] + Len(CprMarker)
        /\ \A k \in (ij[1] + Len(CprMarker))..(ij[2] - 1) : text[k] # Newline }

LeftmostCapture(text) ==
    LET i == CHOOSE i \in {ij[1] : ij \in CprPairs(text)} :
                 \A ij \in CprPairs(text) : i <= ij[1]
        j == CHOOSE j \in {ij[2] : ij \in {x \in CprPairs(text) : x[1] = i}} :
                 \A ij \in CprPairs(text) : ij[1] = i => j <= ij[2]
    IN  SubSeq(text, i + Len(CprMarker), j - 1)

C9_FirstCapture ==
    /\ pc = "get_address_by_cpr" =>
          /\ CprPairs(email.body) # {}
          /\ cpr = LeftmostCapture(email.body)
    /\ (pc = "crashed" /\ exc.type = "IndexError") => CprPairs(email.body) = {}
    /\ \A a, b \in 1..Len(queue) :
          queue[a].email = queue[b].email => queue[a].reference = queue[b].reference

\* the body "CPR-nummer1234567890Adresse ..." gives "1234567890"
C9_Witness ==
    /\ pc = "get_address_by_cpr"
    /\ StartsAt(email.body, 1, CprMarker \o Digits \o AdrMarker)
    /\ Len(email.body) > Len(CprMarker \o Digits \o AdrMarker)
    /\ cpr = Digits

\* C9 as stated: the text strictly between the first occurrence of "CPR-nummer"
\* and the nearest following occurrence of "Adresse"
BetweenFirstMarkers(text) ==
    LET i == CHOOSE i \in 1..Len(text) :
                 /\ StartsAt(text, i, CprMarker)
                 /\ \A k \in 1..(i - 1) : ~StartsAt(text, k, CprMarker)
        j == CHOOSE j \in 1..Len(text) :
                 /\ StartsAt(text, j, AdrMarker) /\ j >= i + Len(CprMarker)
                 /\ \A k \in (i + Len(CprMarker))..(j - 1) : ~StartsAt(text, k, AdrMarker)
    IN  SubSeq(text, i + Len(CprMarker), j - 1)

C9_Original ==
    pc = "get_address_by_cpr" => cpr = BetweenFirstMarkers(email.body)

(***************************************************************************)
(* What the claims about the workflow speak of, read off the state.        *)
(***************************************************************************)
Handlings == 1..handling

EventsOf(h) == {p \in 1..Len(log) : log[p].handling = h}
Has(h, op, ok) == \E p \in EventsOf(h) : log[p].op = op /\ log[p].ok = ok
Count(h, op) == Cardinality({p \in EventsOf(h) : log[p].op = op})
Before(p, h, op) ==
    \E q \in 1..(p - 1) : log[q].handling = h /\ log[q].op = op /\ log[q].ok

QueueOf(h) == {q \in 1..Len(queue) : queue[q].handling = h}
CasesOf(h) == {c \in 1..Len(cases) : cases[c].handling = h}
DocsOf(h) == {d \in 1..Len(documents) : documents[d].handling = h}

\* the handling has ended, by return or by exception
Ended(h) == h < handling \/ pc \in {"loop", "finished", "crashed"}
RunOf(h) == log[CHOOSE p \in EventsOf(h) : log[p].op = "handle_email"].run
EmailOf(h) == log[CHOOSE p \in EventsOf(h) : log[p].op = "handle_email"].email
EmailRecOf(h) ==
    LET sel == selections[RunOf(h)]
    IN  sel[CHOOSE i \in 1..Len(sel) : sel[i].id = EmailOf(h)]

InFolder(id) == \E i \in 1..Len(folder) : folder[i].id = id
ArchivedCopies(id) == Cardinality({a \in 1..Len(archive) : archive[a].id = id})

\* what run r did for the email id
RunEvents(r, id) == {p \in 1..Len(log) : log[p].run = r /\ log[p].email = id}
RunQueue(r, id) == {q \in 1..Len(queue) : queue[q].run = r /\ queue[q].email = id}
RunCases(r, id) == {c \in 1..Len(cases) : cases[c].run = r /\ cases[c].email = id}
RunDocs(r, id) ==
    {d \in 1..Len(documents) : documents[d].run = r /\ documents[d].email = id}
NotAttempted(r, id) ==
    RunEvents(r, id) = {} /\ RunQueue(r, id) = {} /\ RunCases(r, id) = {}
    /\ RunDocs(r, id) = {}

MovedIn(r, id) ==
    \E p \in RunEvents(r, id) : log[p].op = "move_email" /\ log[p].ok
Unprocessed(r) == {i \in 1..Len(selections[r]) : ~MovedIn(r, selections[r][i].id)}
RunEnded(r) == r < run \/ pc \in {"finished", "crashed"}
HandledIn(r, id) == \E p \in RunEvents(r, id) : log[p].op = "handle_email"
Returns(r, id) == \E p \in RunEvents(r, id) : log[p].op = "return"

Raised(h) == {p \in EventsOf(h) : ~log[p].ok}
LastHandlingOfEmail(h) == \A g \in Handlings : g > h => EmailOf(g) # EmailOf(h)

C2_FailureRecorded ==
    \A h \in Handlings : \A p \in Raised(h) :
        /\ log[p].op \in TryPcs
        /\ Cardinality(QueueOf(h)) = 1
        /\ \A q \in QueueOf(h) :
              /\ queue[q].status = FAILED
              /\ queue[q].message = log[p].message
              /\ queue[q].sets = 1
        /\ ~Has(h, "move_email", TRUE)
        /\ ~Has(h, "return", TRUE)
        /\ LastHandlingOfEmail(h) => InFolder(EmailOf(h))

\* move_email raises an exception without text: FAILED with the empty message
C2_Witness ==
    /\ pc = "crashed"
    /\ exc.type = "Exception" /\ exc.at = "move_email" /\ exc.message = ""
    /\ queue[queue_element].status = FAILED
    /\ queue[queue_element].message = ""
    /\ InFolder(email.id)

\* C2 as stated: the message of the failed element is never empty
C2_Original ==
    \A h \in Handlings : \A p \in Raised(h) :
        /\ Cardinality(QueueOf(h)) = 1
        /\ \A q \in QueueOf(h) :
              /\ queue[q].status = FAILED
              /\ queue[q].message = log[p].message
              /\ queue[q].message # ""
        /\ ~Has(h, "move_email", TRUE)
        /\ LastHandlingOfEmail(h) => InFolder(EmailOf(h))

(***************************************************************************)
(* C3, as amended.  When a call of the try block raises while email number *)
(* k of the selected list is handled, the run ends there: in that run the  *)
(* emails before k have one DONE queue element each, email k has one       *)
(* FAILED queue element, and for the emails behind k there is no call, no  *)
(* queue element, no case and no document.  (When the handling of email k  *)
(* raises before the try block, email k has no queue element: C10.)        *)
(***************************************************************************)
PositionIn(sel, id) == CHOOSE i \in 1..Len(sel) : sel[i].id = id

C3_HaltsBatch ==
    \A p \in 1..Len(log) :
        ~log[p].ok =>
            LET r == log[p].run
                sel == selections[r]
                k == PositionIn(sel, log[p].email)
            IN  /\ \A i \in 1..(k - 1) :
                      /\ Cardinality(RunQueue(r, sel[i].id)) = 1
                      /\ \A q \in RunQueue(r, sel[i].id) : queue[q].status = DONE
                /\ Cardinality(RunQueue(r, sel[k].id)) = 1
                /\ \A q \in RunQueue(r, sel[k].id) : queue[q].status = FAILED
                /\ \A i \in (k + 1)..Len(sel) : NotAttempted(r, sel[i].id)
                /\ r = run => pc = "crashed" /\ idx = k

\* a batch of 3 whose email 2 fails at the attachment: done, failed, not attempted
C3_Witness ==
    /\ pc = "crashed"
    /\ Len(emails) = 3
    /\ idx = 2
    /\ exc.type = "Exception"
    /\ exc.at = "attach_document_to_case"
    /\ \E q \in RunQueue(run, emails[1].id) : queue[q].status = DONE
    /\ \E q \in RunQueue(run, emails[2].id) : queue[q].status = FAILED
    /\ NotAttempted(run, emails[3].id)
    /\ InFolder(emails[3].id)

\* C3 as stated: whenever the handling of email k raises, email k has a FAILED
\* queue element
C3_Original ==
    pc = "crashed" =>
        /\ \A i \in 1..(idx - 1) :
              \A q \in RunQueue(run, emails[i].id) : queue[q].status = DONE
        /\ \E q \in RunQueue(run, emails[idx].id) : queue[q].status = FAILED
        /\ \A i \in (idx + 1)..Len(emails) : NotAttempted(run, emails[i].id)

(***************************************************************************)
(* C4, as amended.  For every handling that gets past the extraction of    *)
(* the cpr and the parsing of the received time, one queue element is      *)
(* created, right after them and before any backend call; while the        *)
(* handling runs the element is NEW and unset, and once the handling has   *)
(* ended, by return or by exception, the element has been set exactly      *)
(* once, to DONE or to FAILED.  No element is set twice or is NEW again.   *)
(* A handling that raises in the extraction or the parsing creates none.   *)
(***************************************************************************)
Extracts(m) == CprPairs(m.body) # {} /\ m.received_time = "2024-05-01T10:00:00"

C4_FinalizedOnce ==
    \A h \in Handlings :
        /\ Cardinality(QueueOf(h)) = (IF Extracts(EmailRecOf(h)) THEN 1 ELSE 0)
        /\ Count(h, "create_queue_element") = Cardinality(QueueOf(h))
        /\ \A p \in EventsOf(h) :
              log[p].op = "create_queue_element" =>
                  log[p - 1].op = "handle_email" /\ log[p - 1].handling = h
        /\ \A q \in QueueOf(h) :
              /\ queue[q].sets <= 1
              /\ queue[q].sets = Count(h, "set_queue_element_status")
              /\ queue[q].sets = 0 <=> queue[q].status = STATUS_NEW
              /\ queue[q].sets = 1 <=> queue[q].status \in {DONE, FAILED}
              /\ Ended(h) <=> queue[q].sets = 1

\* a run has ended in its second handling: the element of the first was set
\* once, to DONE, the element of the second once, to FAILED
C4_Witness ==
    /\ pc = "crashed"
    /\ handling = 2
    /\ \E q \in QueueOf(1) : queue[q].status = DONE /\ queue[q].sets = 1
    /\ \E q \in QueueOf(2) : queue[q].status = FAILED /\ queue[q].sets = 1

\* C4 as stated: every handling that was started has created a queue element
C4_Original ==
    \A h \in Handlings : Cardinality(QueueOf(h)) = 1

(***************************************************************************)
(* C5.  In one handling attach_document_to_case is called only after       *)
(* add_case returned, and move_email only after attach_document_to_case    *)
(* returned; each of the three is called at most once, after the queue     *)
(* element was created and before it is set to DONE or FAILED.             *)
(***************************************************************************)
C5_StepOrder ==
    \A p \in 1..Len(log) :
        LET h == log[p].handling
        IN  /\ log[p].op = "attach_document_to_case" => Before(p, h, "add_case")
            /\ log[p].op = "move_email" => Before(p, h, "attach_document_to_case")
            /\ log[p].op \in {"add_case", "attach_document_to_case", "move_email"} =>
                  /\ Before(p, h, "create_queue_element")
                  /\ ~Before(p, h, "set_queue_element_status")
                  /\ Count(h, log[p].op) = 1

\* move_email is called and raises, behind a case and a document of that handling
C5_Witness ==
    \E p \in 1..Len(log) :
        /\ log[p].op = "move_email" /\ ~log[p].ok
        /\ CasesOf(log[p].handling) # {}
        /\ DocsOf(log[p].handling) # {}

(***************************************************************************)
(* C7, as amended.  An email that was moved to the archive folder is never *)
(* selected or handled again.  An email that a run selected and did not    *)
(* move is still in the source folder when the run has ended and is        *)
(* selected again by the next run; that run handles it again from the      *)
(* beginning if it gets to it, that is, unless the handling of an email    *)
(* before it in the list raises.                                           *)
(***************************************************************************)
C7_ArchivedOnceRetriedIfReached ==
    /\ \A p \in 1..Len(log) :
          (log[p].op = "move_email" /\ log[p].ok) =>
              /\ \A q \in (p + 1)..Len(log) :
                    log[q].email = log[p].email => log[q].handling = log[p].handling
              /\ \A r \in (log[p].run + 1)..Len(selections) :
                    \A i \in 1..Len(selections[r]) : selections[r][i].id # log[p].email
              /\ ~InFolder(log[p].email)
    /\ \A r \in 1..Len(selections) : \A i \in Unprocessed(r) :
          LET m == selections[r][i]
          IN  /\ (r = run /\ RunEnded(r)) => InFolder(m.id)
              /\ r < Len(selections) =>
                    LET next == selections[r + 1]
                        j == PositionIn(next, m.id)
                    IN  /\ \E x \in 1..Len(next) : next[x] = m
                        /\ (RunEnded(r + 1) /\ \A x \in 1..(j - 1) : Returns(r + 1, next[x].id))
                              => /\ HandledIn(r + 1, m.id)
                                 /\ Extracts(m) => RunQueue(r + 1, m.id) # {}

\* an email that failed behind add_case in run 1 is handled again and archived
\* in run 2, next to an email that run 1 archived
C7_Witness ==
    /\ run = 2
    /\ pc = "finished"
    /\ \E i \in Unprocessed(1) :
          /\ RunCases(1, selections[1][i].id) # {}
          /\ MovedIn(2, selections[1][i].id)
    /\ \E i \in 1..Len(selections[1]) : MovedIn(1, selections[1][i].id)

\* C7 as stated: an email that a run did not process is handled again in the
\* next run
C7_Original ==
    (run >= 2 /\ RunEnded(run)) =>
        \A i \in Unprocessed(run - 1) : HandledIn(run, selections[run - 1][i].id)

(***************************************************************************)
(* C8.  Every add_case that returns persists one new case with a uuid no   *)
(* other case has, whatever cases exist already, and no case is ever taken *)
(* back: the cases of an email are as many as the handlings of it that got *)
(* past add_case, also when such a handling failed afterwards.             *)
(***************************************************************************)
PastAddCase(id) ==
    {h \in Handlings : EmailOf(h) = id /\ Has(h, "add_case", TRUE)}

C10_ExtractionFailureLeavesNoTrace ==
    \A r \in 1..Len(selections) : \A i \in 1..Len(selections[r]) :
        LET m == selections[r][i]
        IN  ~Extracts(m) =>
                /\ RunQueue(r, m.id) = {} /\ RunCases(r, m.id) = {}
                /\ RunDocs(r, m.id) = {}
                /\ \A p \in RunEvents(r, m.id) : log[p].op = "handle_email"
                /\ InFolder(m.id)
                /\ HandledIn(r, m.id) =>
                      /\ \A j \in (i + 1)..Len(selections[r]) :
                            NotAttempted(r, selections[r][j].id)
                      /\ r = run =>
                            /\ pc = "crashed" /\ idx = i
                            /\ exc.type = (IF CprPairs(m.body) = {} THEN "IndexError"
                                           ELSE "ValueError")

\* the second of three emails has no "CPR-nummer" marker: the first is DONE,
\* the run ends with the IndexError, the third is not attempted
C10_Witness ==
    /\ pc = "crashed"
    /\ exc.type = "IndexError"
    /\ Len(emails) = 3
    /\ idx = 2
    /\ \A k \in 1..Len(emails[2].body) : ~StartsAt(emails[2].body, k, CprMarker)
    /\ \E q \in RunQueue(run, emails[1].id) : queue[q].status = DONE
    /\ RunQueue(run, emails[2].id) = {}
    /\ NotAttempted(run, emails[3].id)

=============================================================================
